---- MODULE Spec2Model ----
(***************************************************************************)
(* Model of streamlit_app.py: the start-up analysis of the reference       *)
(* dataset (load_data_and_analyze_clusters), the decision rule             *)
(* (create_cluster_description) and the per-request prediction path.       *)
(*                                                                         *)
(* Number representation.  Amount and count columns hold whole units.      *)
(* Ratio columns (the *_FREQUENCY columns and PRC_FULL_PAYMENT, all in     *)
(* [0,1] with slider step 0.01) hold hundredths, so 0.5 is 50 and 0.3 is   *)
(* 30.  A value produced by np.log holds thousandths.  A pandas mean is    *)
(* the exact rational sum/n, kept as the record [sum, n]; n = 0 is the NaN *)
(* that DataFrame.mean() gives for an empty frame.                         *)
(***************************************************************************)
EXTENDS Integers, Sequences, FiniteSets, TLC

\* ------------------------------------------------------------------ bounds
\* Longest CSV file explored.
MaxRows == 3
\* Largest cluster id the k-means artifact may predict (ids are 0..MaxClusterId).
MaxClusterId == 2
\* Largest row count behind the means handed to a direct call of the rule.
MaxCount == 2

\* --------------------------------------------------------------- feature set
\* The 17 columns left after df.drop(['CUST_ID']), in the order of input_data.
Fields ==
    << "BALANCE", "BALANCE_FREQUENCY", "PURCHASES", "ONEOFF_PURCHASES",
       "INSTALLMENTS_PURCHASES", "CASH_ADVANCE", "PURCHASES_FREQUENCY",
       "ONEOFF_PURCHASES_FREQUENCY", "PURCHASES_INSTALLMENTS_FREQUENCY",
       "CASH_ADVANCE_FREQUENCY", "CASH_ADVANCE_TRX", "PURCHASES_TRX",
       "CREDIT_LIMIT", "PAYMENTS", "MINIMUM_PAYMENTS", "PRC_FULL_PAYMENT",
       "TENURE" >>

FieldSet == { Fields[i] : i \in 1..Len(Fields) }

\* Columns whose values lie in [0,1] (sliders 0.0..1.0 step 0.01); held in hundredths.
RatioFields ==
    { "BALANCE_FREQUENCY", "PURCHASES_FREQUENCY", "ONEOFF_PURCHASES_FREQUENCY",
      "PURCHASES_INSTALLMENTS_FREQUENCY", "CASH_ADVANCE_FREQUENCY",
      "PRC_FULL_PAYMENT" }

\* A missing CSV cell (pandas NaN).
NaN == -1

\* cols_log of load_data_and_analyze_clusters (the batch path).
cols_log ==
    << "BALANCE", "ONEOFF_PURCHASES", "INSTALLMENTS_PURCHASES", "CASH_ADVANCE",
       "ONEOFF_PURCHASES_FREQUENCY", "PURCHASES_INSTALLMENTS_FREQUENCY",
       "CASH_ADVANCE_TRX", "PURCHASES_TRX", "CREDIT_LIMIT", "PAYMENTS",
       "MINIMUM_PAYMENTS", "PRC_FULL_PAYMENT" >>

\* cols_log of the prediction button handler (the request path).
cols_log_request ==
    << "BALANCE", "ONEOFF_PURCHASES", "INSTALLMENTS_PURCHASES", "CASH_ADVANCE",
       "ONEOFF_PURCHASES_FREQUENCY", "PURCHASES_INSTALLMENTS_FREQUENCY",
       "CASH_ADVANCE_TRX", "PURCHASES_TRX", "CREDIT_LIMIT", "PAYMENTS",
       "MINIMUM_PAYMENTS", "PRC_FULL_PAYMENT" >>

Range(s) == { s[i] : i \in 1..Len(s) }

\* -------------------------------------------------------------- np.log(1 + x)
\* round(1000 * ln(1 + v)) for the whole-unit values the model uses.
LnWhole(v) ==
    CASE v = 0    -> 0
      [] v = 1    -> 693
      [] v = 10   -> 2398
      [] v = 12   -> 2565
      [] v = 50   -> 3932
      [] v = 100  -> 4615
      [] v = 500  -> 6217
      [] v = 1000 -> 6909
      [] v = 1500 -> 7314
      [] v = 2000 -> 7601
      [] v = 5000 -> 8517
      [] v = 6000 -> 8700

\* round(1000 * ln(1 + p/100)) for the hundredths the model uses.
LnRatio(p) ==
    CASE p = 0   -> 0
      [] p = 5   -> 49
      [] p = 30  -> 262
      [] p = 50  -> 405
      [] p = 80  -> 588
      [] p = 100 -> 693

\* np.log(1 + x) on one cell of column f; NaN stays NaN.
log1p(f, v) ==
    IF v = NaN THEN NaN
    ELSE IF f \in RatioFields THEN LnRatio(v) ELSE LnWhole(v)

\* for col in cols: frame[col] = np.log(1 + frame[col]), on one row of the frame.
LogTransformRow(cols, row) ==
    [ f \in DOMAIN row |-> IF f \in Range(cols) THEN log1p(f, row[f]) ELSE row[f] ]

\* ------------------------------------------------------------------- state
VARIABLES
    csv_file,          \* data/CC GENERAL.csv: "missing" or its rows (CUST_ID dropped)
    model_files,       \* models/*.joblib: "missing" or the fitted k-means assignment
    cache_resource,    \* st.cache_resource entry of load_models ("empty" or the models)
    cache_data,        \* st.cache_data entry of load_data_and_analyze_clusters
    pc,                \* position of the current script run
    models,            \* module globals scaler, pca, kmeans ("unset" until loaded)
    cluster_analysis,  \* module global cluster_analysis (<<>> until assigned)
    df,                \* df of the last executed analysis (cleaned, with cluster_id)
    df_log,            \* df_log of the last executed analysis
    df_input,          \* df_input of the button handler (<<>> outside it)
    df_processed,      \* df_processed of the button handler
    input_data,        \* input_data of the button handler (<<>> outside it)
    cluster,           \* cluster of the button handler (NaN until predicted)
    cluster_info,      \* cluster_info of the button handler (<<>> until looked up)
    rendered,          \* what the run has put on the page so far
    exception,         \* the exception that ended the run ("none" if none)
    arg_cluster_id,    \* argument of a direct call of create_cluster_description
    arg_means,         \* argument of a direct call of create_cluster_description
    result             \* what that call returned (<<>> before the call)

vars ==
    << csv_file, model_files, cache_resource, cache_data, pc, models,
       cluster_analysis, df, df_log, input_data, df_input, df_processed, cluster,
       cluster_info, rendered, exception, arg_cluster_id, arg_means, result >>

\* ------------------------------------------------- create_cluster_description
\* means[col] > t for a pandas mean sum/n; a NaN mean (n = 0) compares False.
MeanGt(m, t) == m.n > 0 /\ m.sum > t * m.n

high_balance(means) == MeanGt(means["BALANCE"], 1000)

\* A plausible slip: >= instead of >.
high_purchases_ge(means) ==
    means["PURCHASES"].n > 0 /\ means["PURCHASES"].sum >= 1000 * means["PURCHASES"].n

high_purchases(means) == MeanGt(means["PURCHASES"], 1000)

\* 0.5 in hundredths.
high_frequency(means) == MeanGt(means["PURCHASES_FREQUENCY"], 50)

uses_cash_advance(means) == MeanGt(means["CASH_ADVANCE"], 500)

high_credit_limit(means) == MeanGt(means["CREDIT_LIMIT"], 5000)

\* 0.3 in hundredths.
pays_full(means) == MeanGt(means["PRC_FULL_PAYMENT"], 30)

\* The dict literal of each branch: name, description.format(...) as the
\* template with its arguments, key_features.
\* The dict returned at lines 95-116
ActiveSolvent(means) ==
    [ name |-> "Active solvent customers",
      description |-> [ template |-> "active_solvent", args |-> << means["PURCHASES_FREQUENCY"],
                         means["PURCHASES"], means["PRC_FULL_PAYMENT"] >> ],
      key_features |-> << "High activity", "Responsible payments", "High turnover" >> ]

\* The dict returned at lines 118-139
ActiveInstallments(means) ==
    [ name |-> "Active customers using installments",
      description |-> [ template |-> "active_installments", args |-> << means["PURCHASES_FREQUENCY"],
                         means["PURCHASES"], means["BALANCE"] >> ],
      key_features |-> << "High activity", "Uses installments", "Regular purchases" >> ]

\* The dict returned at lines 141-161
ModerateUsers(means) ==
    [ name |-> "Moderate users",
      description |-> [ template |-> "moderate", args |-> << means["PURCHASES_FREQUENCY"], means["PURCHASES"] >> ],
      key_features |-> << "Moderate activity", "Stable usage", "Regular payments" >> ]

\* The dict returned at lines 164-186
CashAdvanceCustomers(means) ==
    [ name |-> "Cash-advance customers",
      description |-> [ template |-> "cash_advance", args |-> << means["CASH_ADVANCE"],
                         means["PURCHASES_FREQUENCY"], means["CASH_ADVANCE_FREQUENCY"],
                         means["CREDIT_LIMIT"] >> ],
      key_features |-> << "Cash advances", "Low purchase activity", "Needs attention" >> ]

\* The dict returned at lines 188-210
LowActivity(means) ==
    [ name |-> "Low-activity customers",
      description |-> [ template |-> "low_activity", args |-> << means["PURCHASES_FREQUENCY"],
                         means["PURCHASES"], means["BALANCE"] >> ],
      key_features |-> << "Low activity", "Minimal usage", "Needs activation" >> ]

\* The dict returned at lines 212-227; .format() takes no arguments.
UnusualBehavior(means) ==
    [ name |-> "Customers with unusual behavior",
      description |-> [ template |-> "unusual", args |-> <<>> ],
      key_features |-> << "Unusual behavior", "Needs analysis" >> ]

\* The body of "if cluster_id == 0:".
Cluster0Branch(means) ==
    IF high_purchases(means) /\ high_frequency(means)
    THEN IF pays_full(means) THEN ActiveSolvent(means) ELSE ActiveInstallments(means)
    ELSE ModerateUsers(means)

\* A plausible slip: the two tests of the else ladder in the other order.
ElseBranchSwapped(means) ==
    IF ~high_purchases(means) /\ ~high_frequency(means) THEN LowActivity(means)
    ELSE IF uses_cash_advance(means) /\ ~high_purchases(means)
         THEN CashAdvanceCustomers(means)
         ELSE UnusualBehavior(means)

\* The body of "else:  # cluster_id == 1".
ElseBranch(means) ==
    IF uses_cash_advance(means) /\ ~high_purchases(means) THEN CashAdvanceCustomers(means)
    ELSE IF ~high_purchases(means) /\ ~high_frequency(means) THEN LowActivity(means)
         ELSE UnusualBehavior(means)

\* What a rule that rejects ids other than 0 and 1 would return.
LookupError ==
    [ name |-> "KeyError", description |-> [ template |-> "none", args |-> <<>> ],
      key_features |-> <<>> ]

\* A rule with "elif cluster_id == 1:" and a lookup error for any other id.
create_cluster_description_closed(cluster_id, means) ==
    IF cluster_id = 0 THEN Cluster0Branch(means)
    ELSE IF cluster_id = 1 THEN ElseBranch(means) ELSE LookupError

create_cluster_description(cluster_id, means) ==
    IF cluster_id = 0 THEN Cluster0Branch(means) ELSE ElseBranch(means)

\* ------------------------------------------------------------ the CSV file
Row(vals) == [ f \in FieldSet |-> vals[CHOOSE i \in 1..Len(Fields) : Fields[i] = f] ]

\* An active customer who pays in full.
RowActive ==
    Row(<< 2000, 100, 1500, 1000, 500, 0, 80, 50, 30, 0, 0, 10, 6000, 1500, 100, 50, 12 >>)

\* A customer who hardly uses the card.
RowLow ==
    Row(<< 50, 50, 10, 10, 0, 0, 5, 5, 0, 0, 0, 1, 1000, 50, 100, 0, 12 >>)

\* A cash-advance customer whose MINIMUM_PAYMENTS cell is empty.
RowCash ==
    Row(<< 1000, 100, 0, 0, 0, 1000, 0, 0, 0, 50, 10, 0, 5000, 500, NaN, 0, 12 >>)

\* A customer whose CREDIT_LIMIT cell is empty.
RowNoLimit ==
    Row(<< 50, 50, 10, 10, 0, 0, 5, 5, 0, 0, 0, 1, NaN, 50, 500, 0, 12 >>)

CsvRows == { RowActive, RowLow, RowCash, RowNoLimit }

SeqsUpTo(S, n) == UNION { [1..k -> S] : k \in 0..n }

\* The CSV files explored: every sequence of at most MaxRows rows.
CsvFiles == SeqsUpTo(CsvRows, MaxRows)

\* What the sidebar widgets can hold: complete, non-negative rows.
InputRows == { RowActive, RowLow, [RowCash EXCEPT !["MINIMUM_PAYMENTS"] = 100] }

\* ------------------------------------------------------------ preprocessing
RECURSIVE Insert(_, _)
Insert(x, sorted) ==
    IF sorted = <<>> THEN << x >>
    ELSE IF x <= Head(sorted) THEN << x >> \o sorted
         ELSE << Head(sorted) >> \o Insert(x, Tail(sorted))

RECURSIVE Sort(_)
Sort(s) == IF s = <<>> THEN <<>> ELSE Insert(Head(s), Sort(Tail(s)))

\* Series.median(): NaN cells are skipped; NaN when none is left.
Median(col) ==
    LET present == SelectSeq(col, LAMBDA v : v # NaN)
        sorted  == Sort(present)
        n       == Len(sorted)
    IN  IF n = 0 THEN NaN
        ELSE IF n % 2 = 1 THEN sorted[(n + 1) \div 2]
             ELSE (sorted[n \div 2] + sorted[n \div 2 + 1]) \div 2

Column(frame, f) == [ i \in 1..Len(frame) |-> frame[i][f] ]

\* df.dropna(subset=['CREDIT_LIMIT'])
DropNa(frame) == SelectSeq(frame, LAMBDA r : r["CREDIT_LIMIT"] # NaN)

\* df['MINIMUM_PAYMENTS'].fillna(df['MINIMUM_PAYMENTS'].median())
FillNa(frame) ==
    LET med == Median(Column(frame, "MINIMUM_PAYMENTS"))
    IN  [ i \in 1..Len(frame) |->
            IF frame[i]["MINIMUM_PAYMENTS"] = NaN
            THEN [ frame[i] EXCEPT !["MINIMUM_PAYMENTS"] = med ]
            ELSE frame[i] ]

\* Lines 38-40 on the rows read from the CSV file.
Clean(rows) == FillNa(DropNa(rows))

HasNaN(row) == \E f \in DOMAIN row : row[f] = NaN

\* ------------------------------------------------- the three fitted stages
\* scaler.transform and pca.transform are fitted, deterministic maps supplied by
\* the artifacts; each is kept as the application of the stage to its input.
scaler_transform(x) == [ stage |-> "scaled", of |-> x ]

pca_transform(x) == [ stage |-> "reduced", of |-> x ]

\* A plausible slip: the request path leaves the scaler out.
RequestPipelineNoScaler(x) == pca_transform(x)

\* Lines 54-55: X_scaled = scaler.transform(df_log); X_red = pca.transform(X_scaled).
BatchPipeline(x) == pca_transform(scaler_transform(x))

\* Lines 304-305: the same two calls on df_processed.
RequestPipeline(x) == pca_transform(scaler_transform(x))

ClusterIds == 0..MaxClusterId

\* Every vector that can reach kmeans.predict: the cleaned rows of every CSV
\* file on the batch path and every sidebar input on the request path.
Reducible ==
    { BatchPipeline(LogTransformRow(cols_log, r)) :
        r \in { x \in UNION { Range(Clean(rows)) : rows \in CsvFiles } : ~HasNaN(x) } }
    \cup { RequestPipeline(LogTransformRow(cols_log_request, r)) : r \in InputRows }

\* The fitted k-means models: every assignment of a cluster id to those vectors.
KMeansModels == [ Reducible -> ClusterIds ]

\* kmeans.predict on one reduced vector.
kmeans_predict(kmeans, x) == kmeans[x]

\* ------------------------------------------- load_data_and_analyze_clusters
\* A plausible slip: df_log = df without .copy(), so the loop rewrites df too.
BatchLogTransformInPlace(frame) ==
    LET logged == [ i \in 1..Len(frame) |-> LogTransformRow(cols_log, frame[i]) ]
    IN  [ df |-> logged, df_log |-> logged ]

\* Lines 48-50: df_log = df.copy(); the loop rewrites the columns of df_log.
BatchLogTransform(frame) ==
    [ df     |-> frame,
      df_log |-> [ i \in 1..Len(frame) |-> LogTransformRow(cols_log, frame[i]) ] ]

\* range(2) of lines 64 and 352.
RangeTwo == 0..1

RECURSIVE SumSeq(_)
SumSeq(s) == IF s = <<>> THEN 0 ELSE Head(s) + SumSeq(Tail(s))

\* DataFrame.mean(): per column sum/n over the rows of the frame (NaN if empty).
Means(frame) ==
    [ f \in FieldSet \cup { "cluster_id" } |->
        [ sum |-> SumSeq(Column(frame, f)), n |-> Len(frame) ] ]

\* Lines 65-76: the entry of one cluster id.
ClusterEntry(frame, cluster_id) ==
    LET cluster_data  == SelectSeq(frame, LAMBDA r : r["cluster_id"] = cluster_id)
        cluster_means == Means(cluster_data)
    IN  [ means       |-> cluster_means,
          description |-> create_cluster_description(cluster_id, cluster_means),
          size        |-> Len(cluster_data),
          percentage  |-> [ sum |-> Len(cluster_data) * 100, n |-> Len(frame) ] ]

\* The body of load_data_and_analyze_clusters on the rows of the CSV file with
\* the loaded k-means: the exception raised, or the locals at the return.
\* An empty frame and a NaN cell are refused by the fitted stages (ValueError).
Analyze(rows, kmeans) ==
    LET cleaned  == Clean(rows)
        frames   == BatchLogTransform(cleaned)
        clusters == [ i \in 1..Len(cleaned) |->
                        kmeans_predict(kmeans, BatchPipeline(frames.df_log[i])) ]
        labelled == [ i \in 1..Len(cleaned) |->
                        frames.df[i] @@ ("cluster_id" :> clusters[i]) ]
    IN  IF Len(cleaned) = 0 \/ \E i \in 1..Len(cleaned) : HasNaN(cleaned[i])
        THEN [ raised |-> "ValueError", df |-> <<>>, df_log |-> <<>>,
               cluster_analysis |-> <<>> ]
        ELSE [ raised |-> "none", df |-> labelled, df_log |-> frames.df_log,
               cluster_analysis |->
                   [ cluster_id \in RangeTwo |-> ClusterEntry(labelled, cluster_id) ] ]

\* ------------------------------------------------------- the request path
\* A plausible slip: the loop runs on df_input itself.
RequestLogTransformInPlace(frame) ==
    [ df_input     |-> LogTransformRow(cols_log_request, frame),
      df_processed |-> LogTransformRow(cols_log_request, frame) ]

\* Lines 299-301: df_processed = df_input.copy(); the loop rewrites df_processed.
RequestLogTransform(frame) ==
    [ df_input     |-> frame,
      df_processed |-> LogTransformRow(cols_log_request, frame) ]

\* A plausible slip: cluster_analysis.get(cluster, <an empty profile>).
LookupWithDefault(analysis, id) ==
    IF id \in DOMAIN analysis
    THEN [ raised |-> "none", cluster_info |-> analysis[id] ]
    ELSE [ raised |-> "none",
           cluster_info |-> [ means |-> <<>>, description |-> LookupError,
                              size |-> 0, percentage |-> [ sum |-> 0, n |-> 1 ] ] ]

\* Line 312: cluster_analysis[cluster]; a dict raises KeyError for a missing key.
Lookup(analysis, id) ==
    IF id \in DOMAIN analysis
    THEN [ raised |-> "none", cluster_info |-> analysis[id] ]
    ELSE [ raised |-> "KeyError", cluster_info |-> <<>> ]

\* ------------------------------------------------------------ the script
NoModels == [ loaded |-> FALSE, kmeans |-> <<>> ]

Init ==
    /\ csv_file \in { [ present |-> TRUE, rows |-> r ] : r \in CsvFiles }
                    \cup { [ present |-> FALSE, rows |-> <<>> ] }
    /\ model_files \in { [ present |-> TRUE, kmeans |-> k ] : k \in KMeansModels }
                       \cup { [ present |-> FALSE, kmeans |-> <<>> ] }
    /\ cache_resource = NoModels
    /\ cache_data = [ hit |-> FALSE, value |-> <<>> ]
    /\ pc = "idle"
    /\ models = NoModels
    /\ cluster_analysis = <<>>
    /\ df = <<>>
    /\ df_log = <<>>
    /\ input_data = <<>>
    /\ df_input = <<>>
    /\ df_processed = <<>>
    /\ cluster = NaN
    /\ cluster_info = <<>>
    /\ rendered = <<>>
    /\ exception = "none"
    /\ arg_cluster_id = NaN
    /\ arg_means = <<>>
    /\ result = <<>>

\* Lines 8-19: a (re)run of the script starts with fresh module globals; the two
\* caches and the files outlive the run.
RunScript ==
    /\ pc \in { "idle", "stopped", "done", "crashed" }
    /\ pc' = "load_models"
    /\ models' = NoModels
    /\ cluster_analysis' = <<>>
    /\ input_data' = <<>>
    /\ df_input' = <<>>
    /\ df_processed' = <<>>
    /\ cluster' = NaN
    /\ cluster_info' = <<>>
    /\ rendered' = << "title" >>
    /\ exception' = "none"
    /\ UNCHANGED << csv_file, model_files, cache_resource, cache_data, df, df_log,
                    arg_cluster_id, arg_means, result >>

\* Line 231: scaler, pca, kmeans = load_models(), behind st.cache_resource.
LoadModels ==
    /\ pc = "load_models"
    /\ IF cache_resource.loaded
       THEN /\ models' = cache_resource
            /\ pc' = "analyze"
            /\ UNCHANGED << cache_resource, exception >>
       ELSE IF model_files.present
            THEN /\ cache_resource' = [ loaded |-> TRUE, kmeans |-> model_files.kmeans ]
                 /\ models' = cache_resource'
                 /\ pc' = "analyze"
                 /\ UNCHANGED exception
            ELSE /\ exception' = "FileNotFoundError"
                 /\ pc' = "except"
                 /\ UNCHANGED << cache_resource, models >>
    /\ UNCHANGED << csv_file, model_files, cache_data, cluster_analysis, df, df_log,
                    input_data, df_input, df_processed, cluster, cluster_info,
                    rendered, arg_cluster_id, arg_means, result >>

\* Line 232: cluster_analysis = load_data_and_analyze_clusters(), behind
\* st.cache_data; the load_models() of line 53 is a hit of st.cache_resource.
AnalyzeClusters ==
    /\ pc = "analyze"
    /\ IF cache_data.hit
       THEN /\ cluster_analysis' = cache_data.value
            /\ pc' = "sidebar"
            /\ UNCHANGED << cache_data, df, df_log, exception >>
       ELSE IF ~csv_file.present
            THEN /\ exception' = "FileNotFoundError"
                 /\ pc' = "except"
                 /\ UNCHANGED << cache_data, cluster_analysis, df, df_log >>
            ELSE LET r == Analyze(csv_file.rows, cache_resource.kmeans)
                 IN  IF r.raised # "none"
                     THEN /\ exception' = r.raised
                          /\ pc' = "except"
                          /\ UNCHANGED << cache_data, cluster_analysis, df, df_log >>
                     ELSE /\ cache_data' = [ hit |-> TRUE, value |-> r.cluster_analysis ]
                          /\ cluster_analysis' = r.cluster_analysis
                          /\ df' = r.df
                          /\ df_log' = r.df_log
                          /\ pc' = "sidebar"
                          /\ UNCHANGED exception
    /\ UNCHANGED << csv_file, model_files, cache_resource, models, input_data,
                    df_input, df_processed, cluster, cluster_info, rendered,
                    arg_cluster_id, arg_means, result >>

\* A plausible slip: the handler reports the error and the script goes on.
AfterExceptNoStop == "sidebar"

\* Line 235: st.stop() ends the run.
AfterExcept == "stopped"

\* Lines 233-235: except Exception: st.error(...); st.stop().
ExceptHandler ==
    /\ pc = "except"
    /\ rendered' = Append(rendered, "error")
    /\ pc' = AfterExcept
    /\ UNCHANGED << csv_file, model_files, cache_resource, cache_data, models,
                    cluster_analysis, df, df_log, input_data, df_input,
                    df_processed, cluster, cluster_info, exception,
                    arg_cluster_id, arg_means, result >>

\* Lines 269-346: the button is pressed with some values in the widgets.
PredictionHandler ==
    /\ pc = "sidebar"
    /\ \E values \in InputRows :
         LET frames == RequestLogTransform(values)
             id     == kmeans_predict(models.kmeans, RequestPipeline(frames.df_processed))
             found  == Lookup(cluster_analysis, id)
         IN  /\ input_data' = values
             /\ df_input' = frames.df_input
             /\ df_processed' = frames.df_processed
             /\ cluster' = id
             /\ cluster_info' = found.cluster_info
             /\ exception' = found.raised
             /\ IF found.raised = "none"
                THEN /\ rendered' = rendered \o << "success", "profile" >>
                     /\ pc' = "overview"
                ELSE /\ rendered' = Append(rendered, "success")
                     /\ pc' = "crashed"
    /\ UNCHANGED << csv_file, model_files, cache_resource, cache_data, models,
                    cluster_analysis, df, df_log, arg_cluster_id, arg_means, result >>

\* Line 269: the button is not pressed in this run.
NoPrediction ==
    /\ pc = "sidebar"
    /\ pc' = "overview"
    /\ UNCHANGED << csv_file, model_files, cache_resource, cache_data, models,
                    cluster_analysis, df, df_log, input_data, df_input,
                    df_processed, cluster, cluster_info, rendered, exception,
                    arg_cluster_id, arg_means, result >>

\* Lines 349-355: the overview reads cluster_analysis[0] and cluster_analysis[1].
Overview ==
    /\ pc = "overview"
    /\ IF RangeTwo \subseteq DOMAIN cluster_analysis
       THEN /\ rendered' = Append(rendered, "overview")
            /\ pc' = "done"
            /\ UNCHANGED exception
       ELSE /\ exception' = "KeyError"
            /\ pc' = "crashed"
            /\ UNCHANGED rendered
    /\ UNCHANGED << csv_file, model_files, cache_resource, cache_data, models,
                    cluster_analysis, df, df_log, input_data, df_input,
                    df_processed, cluster, cluster_info, arg_cluster_id,
                    arg_means, result >>

Next ==
    \/ RunScript
    \/ LoadModels
    \/ AnalyzeClusters
    \/ ExceptHandler
    \/ PredictionHandler
    \/ NoPrediction
    \/ Overview

Spec == Init /\ [][Next]_vars

\* ------------------------------- direct calls of create_cluster_description
\* The columns the six predicates read, each with the value its predicate
\* compares the mean against (ratios in hundredths).
Boundary ==
    [ BALANCE |-> 1000, PURCHASES |-> 1000, PURCHASES_FREQUENCY |-> 50,
      CASH_ADVANCE |-> 500, CREDIT_LIMIT |-> 5000, PRC_FULL_PAYMENT |-> 30 ]

\* The means of n rows that lie just below, on or just above each boundary.
MeansAround(n, offset) ==
    [ f \in FieldSet \cup { "cluster_id" } |->
        IF f \in DOMAIN Boundary
        THEN [ sum |-> Boundary[f] * n + offset[f], n |-> n ]
        ELSE [ sum |-> 0, n |-> n ] ]

\* The means of an empty frame: every column NaN.
MeansOfNothing == [ f \in FieldSet \cup { "cluster_id" } |-> [ sum |-> 0, n |-> 0 ] ]

InitCall ==
    /\ arg_cluster_id \in ClusterIds
    /\ arg_means \in { MeansAround(n, offset) :
                         n \in 1..MaxCount, offset \in [ DOMAIN Boundary -> { -1, 0, 1 } ] }
                     \cup { MeansOfNothing }
    /\ result = <<>>
    /\ pc = "call"
    /\ csv_file = [ present |-> FALSE, rows |-> <<>> ]
    /\ model_files = [ present |-> FALSE, kmeans |-> <<>> ]
    /\ cache_resource = NoModels
    /\ cache_data = [ hit |-> FALSE, value |-> <<>> ]
    /\ models = NoModels
    /\ cluster_analysis = <<>>
    /\ df = <<>>
    /\ df_log = <<>>
    /\ input_data = <<>>
    /\ df_input = <<>>
    /\ df_processed = <<>>
    /\ cluster = NaN
    /\ cluster_info = <<>>
    /\ rendered = <<>>
    /\ exception = "none"

\* description = create_cluster_description(cluster_id, means)
Call ==
    /\ pc = "call"
    /\ result' = create_cluster_description(arg_cluster_id, arg_means)
    /\ pc' = "returned"
    /\ UNCHANGED << csv_file, model_files, cache_resource, cache_data, models,
                    cluster_analysis, df, df_log, input_data, df_input,
                    df_processed, cluster, cluster_info, rendered, exception,
                    arg_cluster_id, arg_means >>

NextCall == Call

SpecCall == InitCall /\ [][NextCall]_vars

\* ------------------------------------------------------------------ claims
\* The decision table of the specification, in order; "-" is a cell that is
\* not tested.  Row 3 ("high_purchases false or high_frequency false") is two rows.
DecisionTable ==
    << [ id |-> 0, hp |-> "T", hf |-> "T", pf |-> "T", ca |-> "-",
         name |-> "Active solvent customers",
         tags |-> << "High activity", "Responsible payments", "High turnover" >> ],
       [ id |-> 0, hp |-> "T", hf |-> "T", pf |-> "F", ca |-> "-",
         name |-> "Active customers using installments",
         tags |-> << "High activity", "Uses installments", "Regular purchases" >> ],
       [ id |-> 0, hp |-> "F", hf |-> "-", pf |-> "-", ca |-> "-",
         name |-> "Moderate users",
         tags |-> << "Moderate activity", "Stable usage", "Regular payments" >> ],
       [ id |-> 0, hp |-> "-", hf |-> "F", pf |-> "-", ca |-> "-",
         name |-> "Moderate users",
         tags |-> << "Moderate activity", "Stable usage", "Regular payments" >> ],
       [ id |-> 1, hp |-> "F", hf |-> "-", pf |-> "-", ca |-> "T",
         name |-> "Cash-advance customers",
         tags |-> << "Cash advances", "Low purchase activity", "Needs attention" >> ],
       [ id |-> 1, hp |-> "F", hf |-> "F", pf |-> "-", ca |-> "F",
         name |-> "Low-activity customers",
         tags |-> << "Low activity", "Minimal usage", "Needs activation" >> ],
       [ id |-> 1, hp |-> "-", hf |-> "-", pf |-> "-", ca |-> "-",
         name |-> "Customers with unusual behavior",
         tags |-> << "Unusual behavior", "Needs analysis" >> ] >>

CellHolds(cell, value) == cell = "-" \/ (cell = "T" /\ value) \/ (cell = "F" /\ ~value)

\* Row i of the table applies to the means when read as cluster id `id`.
RowMatches(i, id, means) ==
    /\ DecisionTable[i].id = id
    /\ CellHolds(DecisionTable[i].hp, high_purchases(means))
    /\ CellHolds(DecisionTable[i].hf, high_frequency(means))
    /\ CellHolds(DecisionTable[i].pf, pays_full(means))
    /\ CellHolds(DecisionTable[i].ca, uses_cash_advance(means))

\* The returned dict is that of the first row of the table that applies.
IsFirstMatch(res, id, means) ==
    \E i \in 1..Len(DecisionTable) :
        /\ RowMatches(i, id, means)
        /\ \A j \in 1..(i - 1) : ~RowMatches(j, id, means)
        /\ res.name = DecisionTable[i].name
        /\ res.key_features = DecisionTable[i].tags

\* C1: for cluster_id 0 and 1 and every combination of the predicates,
\* create_cluster_description returns the name and the tags of the first row of
\* the decision table that applies.
C1_DecisionTable ==
    (pc = "returned" /\ arg_cluster_id \in { 0, 1 })
        => IsFirstMatch(result, arg_cluster_id, arg_means)

\* C1 witness: the call returned row 6 of the table (cluster 1, no purchases,
\* no frequency, no cash advance).
C1_Witness ==
    /\ pc = "returned"
    /\ arg_cluster_id = 1
    /\ ~high_purchases(arg_means) /\ ~high_frequency(arg_means)
    /\ ~uses_cash_advance(arg_means)
    /\ result.name = "Low-activity customers"

\* The mean of column f is exactly the value its predicate compares against.
OnBoundary(f) == arg_means[f].n > 0 /\ arg_means[f].sum = Boundary[f] * arg_means[f].n

\* The same means with column f strictly below its boundary.
Below(f) == [ arg_means EXCEPT ![f].sum = @ - 1 ]

\* C2: a mean exactly on its threshold makes its predicate False (strict >),
\* for all six predicates, and the branch taken is the one taken when that mean
\* is below the threshold.
C2_StrictBoundaries ==
    pc = "returned" =>
        /\ OnBoundary("BALANCE") => ~high_balance(arg_means)
        /\ OnBoundary("PURCHASES") => ~high_purchases(arg_means)
        /\ OnBoundary("PURCHASES_FREQUENCY") => ~high_frequency(arg_means)
        /\ OnBoundary("CASH_ADVANCE") => ~uses_cash_advance(arg_means)
        /\ OnBoundary("CREDIT_LIMIT") => ~high_credit_limit(arg_means)
        /\ OnBoundary("PRC_FULL_PAYMENT") => ~pays_full(arg_means)
        /\ \A f \in DOMAIN Boundary :
             OnBoundary(f) =>
                LET low == create_cluster_description(arg_cluster_id, Below(f))
                IN  result.name = low.name /\ result.key_features = low.key_features

\* C2 witness: mean PURCHASES exactly 1000 with a high purchase frequency in
\* cluster 0 returned "Moderate users".
C2_Witness ==
    /\ pc = "returned"
    /\ arg_cluster_id = 0
    /\ OnBoundary("PURCHASES")
    /\ high_frequency(arg_means)
    /\ result.name = "Moderate users"

Analysed == DOMAIN cluster_analysis # {}

RECURSIVE SumOver(_, _)
SumOver(S, g) ==
    IF S = {} THEN 0
    ELSE LET x == CHOOSE y \in S : TRUE IN g[x] + SumOver(S \ { x }, g)

\* C3 as stated: the sizes of the returned profiles sum to the row count of the
\* dataset and their percentages sum to 100.
C3_SizesCoverDataset ==
    Analysed =>
        /\ SumOver(DOMAIN cluster_analysis,
                   [ c \in DOMAIN cluster_analysis |-> cluster_analysis[c].size ])
             = Len(df)
        /\ SumOver(DOMAIN cluster_analysis,
                   [ c \in DOMAIN cluster_analysis |-> cluster_analysis[c].percentage.sum ])
             = 100 * Len(df)
        /\ \A c \in DOMAIN cluster_analysis : cluster_analysis[c].percentage.n = Len(df)

\* The ids the k-means assigned to the rows of the dataset.
AssignedIds == { df[i]["cluster_id"] : i \in 1..Len(df) }

\* C3 restricted to assignments within range(2): the sizes then add up.
C3_WithinRangeTwo == (Analysed /\ AssignedIds \subseteq RangeTwo) => C3_SizesCoverDataset

\* C4 as stated: the keys of the returned mapping are exactly the cluster ids
\* that at least one row was assigned to.
C4_KeysAreAssignedIds == Analysed => DOMAIN cluster_analysis = AssignedIds

\* C5: a predicted cluster id that has no profile ends the handler in an
\* error; no profile, default or empty, is returned or displayed.
C5_UnknownIdIsAnError ==
    (cluster # NaN /\ cluster \notin DOMAIN cluster_analysis)
        => /\ exception = "KeyError"
           /\ pc = "crashed"
           /\ DOMAIN cluster_info = {}
           /\ "profile" \notin Range(rendered)
           /\ "overview" \notin Range(rendered)

\* C5 witness: id 2 was predicted, only 0 and 1 were analysed, the run ended
\* in KeyError.
C5_Witness ==
    /\ cluster = 2
    /\ DOMAIN cluster_analysis = { 0, 1 }
    /\ exception = "KeyError"
    /\ pc = "crashed"

\* The exceptions raised inside the try block of lines 230-232.
StartupFailed == exception \in { "FileNotFoundError", "ValueError" }

\* C6: in a run whose load (or start-up analysis) failed, the script is in the
\* except handler or stopped: no input was read, nothing was predicted, no
\* profile was looked up or shown; and the handler is only reachable with the
\* models loaded and the analysis present.
C6_NoPredictionAfterFailedLoad ==
    /\ StartupFailed =>
          /\ pc \in { "except", "stopped" }
          /\ DOMAIN input_data = {}
          /\ cluster = NaN
          /\ DOMAIN cluster_info = {}
          /\ { "success", "profile", "overview" } \cap Range(rendered) = {}
    /\ pc \in { "sidebar", "overview", "done", "crashed" } =>
          models.loaded /\ Analysed

\* C6 witness: the artifacts are missing, the error was shown and the run stopped.
C6_Witness ==
    /\ ~model_files.present
    /\ exception = "FileNotFoundError"
    /\ pc = "stopped"
    /\ rendered = << "title", "error" >>

\* The five columns the claim names as untouched by the log transform.
PassThrough ==
    { "BALANCE_FREQUENCY", "PURCHASES", "PURCHASES_FREQUENCY",
      "CASH_ADVANCE_FREQUENCY", "TENURE" }

\* `after` is `before` with ln(1+v) in the 12 other columns.
IsLogOf(after, before) ==
    \A f \in FieldSet :
        after[f] = IF f \in PassThrough THEN before[f] ELSE log1p(f, before[f])

\* C7: on both paths the transformed frame has ln(1+v) in the 12 columns of
\* the log-transform set and the original value in the other 5, and the frame
\* it was copied from still holds the original values.
C7_LogTransformFrame ==
    /\ Cardinality(FieldSet \ PassThrough) = 12
    /\ DOMAIN input_data # {} =>
          /\ IsLogOf(df_processed, input_data)
          /\ \A f \in FieldSet : df_input[f] = input_data[f]
    /\ Len(df) > 0 =>
          /\ Len(df) = Len(Clean(csv_file.rows)) /\ Len(df_log) = Len(df)
          /\ \A i \in 1..Len(df) :
                /\ IsLogOf(df_log[i], Clean(csv_file.rows)[i])
                /\ \A f \in FieldSet : df[i][f] = Clean(csv_file.rows)[i][f]

\* C7 witness: the handler transformed the active customer's input: BALANCE
\* 2000 became ln(2001), PURCHASES stayed 1500.
C7_Witness ==
    /\ pc = "overview"
    /\ DOMAIN input_data # {}
    /\ input_data["BALANCE"] = 2000
    /\ df_processed["BALANCE"] = 7601
    /\ df_processed["PURCHASES"] = 1500
    /\ df_input["BALANCE"] = 2000

\* The rows of the cleaned CSV file that were assigned cluster id c.
RowsOf(c) == { i \in 1..Len(df) : df[i]["cluster_id"] = c }

\* C8: the means of each profile are the arithmetic means of the raw cell
\* values of the rows assigned to the cluster, and the description is the
\* decision rule applied to those means.
C8_MeansOfRawValues ==
    Analysed =>
        \A c \in DOMAIN cluster_analysis :
            /\ \A f \in FieldSet :
                  cluster_analysis[c].means[f] =
                      [ sum |-> SumOver(RowsOf(c),
                                        [ i \in RowsOf(c) |-> Clean(csv_file.rows)[i][f] ]),
                        n   |-> Cardinality(RowsOf(c)) ]
            /\ cluster_analysis[c].description =
                  create_cluster_description(c, cluster_analysis[c].means)

\* C8 witness: the active and the low customer were both assigned cluster 0;
\* its mean BALANCE is (2000 + 50) / 2.
C8_Witness ==
    /\ pc = "sidebar"
    /\ Analysed
    /\ Len(df) = 2
    /\ cluster_analysis[0].means["BALANCE"] = [ sum |-> 2050, n |-> 2 ]

\* C9: both paths log-transform the same 12 columns, and a raw vector entered
\* as a request gets the cluster id it got as a row of the reference dataset.
C9_SamePreprocessing ==
    /\ Range(cols_log) = Range(cols_log_request)
    /\ cluster # NaN =>
          \A i \in 1..Len(df) :
              (\A f \in FieldSet : df[i][f] = input_data[f])
                  => df[i]["cluster_id"] = cluster

\* C9 witness: the request repeats a row of the dataset that was assigned
\* cluster 1, and the request was assigned cluster 1.
C9_Witness ==
    /\ cluster = 1
    /\ \E i \in 1..Len(df) :
          /\ \A f \in FieldSet : df[i][f] = input_data[f]
          /\ df[i]["cluster_id"] = 1

====
